---- MODULE Spec2Model ----
(***************************************************************************)
(* Model of the document question-answering service: the recursive text    *)
(* chunker (app/core/chunker.py), the ingestion pipeline                    *)
(* (app/services/ingestion.py), the vector store wrapper                    *)
(* (app/core/vector_store.py) and the retrieval pipeline in blocking and    *)
(* streaming form (app/services/retriever.py, app/api/query.py).            *)
(*                                                                          *)
(* A text is a sequence of one-character strings.                           *)
(***************************************************************************)
EXTENDS Integers, Sequences, FiniteSets, TLC

\* ---------------------------------------------------------------- bounds
\* Longest input text handed to the chunker in SpecChunker.
MaxTextLen == 5
\* Largest chunk_size a Chunker is configured with.
MaxChunkSize == 3
\* Number of ingest_pdf invocations (document ids minted) in one behaviour.
MaxIngests == 2
\* Largest top_k of a query.
MaxTopK == 2
\* Largest number of chunks the generation backend streams for one answer.
MaxFragments == 2
\* Constructor arguments tried go down to -MaxNegArg.
MaxNegArg == 1
\* The interpreter's limit on nested calls, counted in _split_text frames.
RecursionLimit == 8
\* The largest distance converted on its own, in units of 1e-5.
MaxDistance == 30

\* ------------------------------------------------------------ characters
NL == "\n"
SP == " "
DOT == "."

\* Characters an input text is drawn from: two letters, the space, the full
\* stop and the line break (the characters the separators are made of).
Alphabet == {"a", "b", SP, DOT, NL}

\* str.isspace() restricted to the alphabet.
IsSpace(c) == c \in {SP, NL}

\* Chunker.SEPARATORS: paragraph, line, sentence, word, character.
SEPARATORS == << <<NL, NL>>, <<NL>>, <<DOT, SP>>, <<SP>>, <<>> >>

\* ------------------------------------------------------- string helpers
RECURSIVE LStrip(_)
LStrip(s) ==
    IF s = <<>> THEN <<>>
    ELSE IF IsSpace(Head(s)) THEN LStrip(Tail(s)) ELSE s

RECURSIVE RStrip(_)
RStrip(s) ==
    IF s = <<>> THEN <<>>
    ELSE IF IsSpace(s[Len(s)]) THEN RStrip(SubSeq(s, 1, Len(s) - 1)) ELSE s

\* str.strip(): drop leading and trailing whitespace.
Strip(s) == RStrip(LStrip(s))

\* s.startswith(sep, i) for the 1-based position i.
StartsWithAt(s, sep, i) ==
    /\ i + Len(sep) - 1 <= Len(s)
    /\ SubSeq(s, i, i + Len(sep) - 1) = sep

\* str.find(sep): the least 1-based position of sep in s, 0 when absent.
Find(s, sep) ==
    IF \E i \in 1..Len(s) : StartsWithAt(s, sep, i)
    THEN CHOOSE i \in 1..Len(s) :
            /\ StartsWithAt(s, sep, i)
            /\ \A j \in 1..(i - 1) : ~StartsWithAt(s, sep, j)
    ELSE 0

\* str.split(sep) for a non-empty sep: cut at every leftmost,
\* non-overlapping occurrence, keeping empty pieces.
RECURSIVE Split(_, _)
Split(s, sep) ==
    LET i == Find(s, sep)
    IN  IF i = 0 THEN <<s>>
        ELSE <<SubSeq(s, 1, i - 1)>> \o Split(SubSeq(s, i + Len(sep), Len(s)), sep)

\* list(text): one piece per character.
Chars(s) == [i \in 1..Len(s) |-> <<s[i]>>]

\* ---------------------------------------------------------------- chunker
\* Chunker.__init__: the configurations construction accepts.
ChunkerInit(size, overlap) == overlap < size

\* Chunker._split_text and its merge loop.  MergePieces is the for loop of
\* _split_text from piece number i on, with the loop's local variables
\* chunks and current.
RECURSIVE SplitText(_, _, _)
RECURSIVE MergePieces(_, _, _, _, _, _, _)
MergePieces(pieces, i, chunks, current, separator, remaining, size) ==
    IF i > Len(pieces)
    THEN IF Strip(current) # <<>> THEN Append(chunks, current) ELSE chunks
    ELSE LET piece == pieces[i]
             candidate == IF current # <<>>
                          THEN current \o separator \o piece
                          ELSE piece
         IN  IF Len(candidate) <= size
             THEN MergePieces(pieces, i + 1, chunks, candidate,
                              separator, remaining, size)
             ELSE LET saved == IF current # <<>>
                               THEN Append(chunks, current)
                               ELSE chunks
                  IN  IF Len(piece) > size /\ remaining # <<>>
                      THEN MergePieces(pieces, i + 1,
                                       saved \o SplitText(piece, remaining, size),
                                       current, separator, remaining, size)
                      ELSE MergePieces(pieces, i + 1, saved, piece,
                                       separator, remaining, size)

SplitText(txt, separators, size) ==
    IF Len(txt) <= size
    THEN IF Strip(txt) # <<>> THEN <<txt>> ELSE <<>>
    ELSE LET separator == Head(separators)
             remaining == IF Len(separators) > 1
                          THEN Tail(separators)
                          ELSE separators
             pieces == IF separator = <<>>
                       THEN Chars(txt)
                       ELSE Split(txt, separator)
         IN  MergePieces(pieces, 1, <<>>, <<>>, separator, remaining, size)

\* How deeply _split_text nests: the nesting reached by the call at nesting
\* depth before it returns, or RecursionLimit + 1 as soon as a call would
\* exceed the limit (RecursionError, which nothing catches).  MergeDepth
\* follows the same loop as MergePieces; current is all of its state that
\* decides whether the loop recurses.
RECURSIVE SplitDepth(_, _, _, _)
RECURSIVE MergeDepth(_, _, _, _, _, _, _, _)
MergeDepth(pieces, i, current, separator, remaining, size, depth, deepest) ==
    IF i > Len(pieces)
    THEN deepest
    ELSE LET piece == pieces[i]
             candidate == IF current # <<>>
                          THEN current \o separator \o piece
                          ELSE piece
         IN  IF Len(candidate) <= size
             THEN MergeDepth(pieces, i + 1, candidate, separator, remaining,
                             size, depth, deepest)
             ELSE IF Len(piece) > size /\ remaining # <<>>
                  THEN LET sub == SplitDepth(piece, remaining, size, depth + 1)
                       IN  IF sub > RecursionLimit
                           THEN sub
                           ELSE MergeDepth(pieces, i + 1, current, separator,
                                           remaining, size, depth,
                                           IF sub > deepest THEN sub ELSE deepest)
                  ELSE MergeDepth(pieces, i + 1, piece, separator, remaining,
                                  size, depth, deepest)

SplitDepth(txt, separators, size, depth) ==
    IF depth > RecursionLimit
    THEN depth
    ELSE IF Len(txt) <= size
         THEN depth
         ELSE LET separator == Head(separators)
                  remaining == IF Len(separators) > 1
                               THEN Tail(separators)
                               ELSE separators
                  pieces == IF separator = <<>>
                            THEN Chars(txt)
                            ELSE Split(txt, separator)
              IN  MergeDepth(pieces, 1, <<>>, separator, remaining, size,
                             depth, depth)

\* The nesting of _split_text calls that chunk(txt) reaches; 0 when chunk
\* returns before calling it.
ChunkDepth(txt, size) ==
    IF Strip(txt) = <<>> THEN 0 ELSE SplitDepth(txt, SEPARATORS, size, 1)

\* chunk(txt) ends in RecursionError.
ChunkRaises(txt, size) == ChunkDepth(txt, size) > RecursionLimit

\* Mutation of OverlapText: the slice is not moved to a word boundary.
OverlapText_NoBoundary(prev, overlap) ==
    IF overlap >= Len(prev)
    THEN prev
    ELSE SubSeq(prev, Len(prev) - overlap + 1, Len(prev))

\* prev[-chunk_overlap:] followed by the word-boundary adjustment.
OverlapText(prev, overlap) ==
    LET tail == IF overlap >= Len(prev)
                THEN prev
                ELSE SubSeq(prev, Len(prev) - overlap + 1, Len(prev))
        space_idx == Find(tail, <<SP>>)
    IN  IF space_idx # 0 THEN SubSeq(tail, space_idx + 1, Len(tail)) ELSE tail

\* Chunker._add_overlap
AddOverlap(chunks, overlap) ==
    [i \in 1..Len(chunks) |->
        IF i = 1 THEN chunks[1]
        ELSE OverlapText(chunks[i - 1], overlap) \o <<SP>> \o chunks[i]]

\* [chunk.strip() for chunk in raw_chunks if chunk.strip()]
RECURSIVE StripAll(_)
StripAll(chunks) ==
    IF chunks = <<>> THEN <<>>
    ELSE LET c == Strip(Head(chunks))
         IN  IF c # <<>> THEN <<c>> \o StripAll(Tail(chunks))
             ELSE StripAll(Tail(chunks))

\* The value of raw_chunks after line 30 of Chunker.chunk.
RawChunks(txt, size) ==
    IF Strip(txt) = <<>> THEN <<>> ELSE SplitText(txt, SEPARATORS, size)

\* Chunker.chunk
Chunk(txt, size, overlap) ==
    IF Strip(txt) = <<>> THEN <<>>
    ELSE LET raw == SplitText(txt, SEPARATORS, size)
             withOverlap == IF overlap > 0 /\ Len(raw) > 1
                            THEN AddOverlap(raw, overlap)
                            ELSE raw
         IN  StripAll(withOverlap)

\* ------------------------------------------------------------ chunker run
\* One direct use of the chunker: a Chunker is constructed, chunk(text) is
\* called once.  raw_chunks is the local variable of chunk() before the
\* overlap step, segments the returned list.
VARIABLES chunk_size, chunk_overlap, text, raw_chunks, segments, chunk_pc

chunkerVars == <<chunk_size, chunk_overlap, text, raw_chunks, segments, chunk_pc>>

\* All texts of at most n characters.
RECURSIVE TextsUpTo(_)
TextsUpTo(n) ==
    IF n = 0 THEN {<<>>}
    ELSE LET shorter == TextsUpTo(n - 1)
         IN  shorter \cup {Append(t, c) : t \in {u \in shorter : Len(u) = n - 1},
                                            c \in Alphabet}

\* Chunker(settings.chunk_size, settings.chunk_overlap): the configurations
\* that pass the Settings field limits (chunk_size at least its lower limit,
\* chunk_overlap >= 0) and that construction accepts.
ChunkerConfigs ==
    {cfg \in (1..MaxChunkSize) \X (0..MaxChunkSize) : ChunkerInit(cfg[1], cfg[2])}

\* ------------------------------------------------------------------ PDFs
\* A PDF file: whether fitz.open succeeds, and per page the text layer
\* (page.get_text) and what Tesseract reads from the rendered page
\* (ocr_ok = FALSE: the OCR call raises).
Page(txt, ocr, ocr_ok) == [text |-> txt, ocr |-> ocr, ocr_ok |-> ocr_ok]

PdfUnreadable == [readable |-> FALSE, pages |-> <<>>]
\* A scan without text: one page on which OCR raises, one on which it reads
\* only whitespace.
PdfBlankScan ==
    [readable |-> TRUE,
     pages |-> <<Page(<<>>, <<>>, FALSE), Page(<<SP>>, <<NL, SP>>, TRUE)>>]
\* A scan whose text comes from OCR.
PdfScanned ==
    [readable |-> TRUE,
     pages |-> <<Page(<<NL>>, <<"a", SP, "b", "a", NL>>, TRUE)>>]
\* Three pages with a text layer, the second one blank.
PdfTwoPages ==
    [readable |-> TRUE,
     pages |-> <<Page(<<SP, "b", DOT, SP, "a">>, <<>>, TRUE),
                 Page(<<SP>>, <<>>, TRUE),
                 Page(<<"a", "b", "a", "b", NL>>, <<>>, TRUE)>>]

\* The files uploaded in the model.
Pdfs == {PdfUnreadable, PdfBlankScan, PdfScanned, PdfTwoPages}

\* _ocr_page: the stripped OCR text, "" when OCR raises.
OcrPage(page) == IF page.ocr_ok THEN Strip(page.ocr) ELSE <<>>

\* The pages list extract_text_from_pdf builds: the stripped text layer of
\* each page, else its OCR text, pages with neither left out.
RECURSIVE PageTexts(_)
PageTexts(pages) ==
    IF pages = <<>> THEN <<>>
    ELSE LET page == Head(pages)
             direct == Strip(page.text)
             ocr_text == OcrPage(page)
             rest == PageTexts(Tail(pages))
         IN  IF direct # <<>> THEN <<direct>> \o rest
             ELSE IF ocr_text # <<>> THEN <<ocr_text>> \o rest
             ELSE rest

\* "\n\n".join(pages)
RECURSIVE JoinPages(_)
JoinPages(pages) ==
    IF pages = <<>> THEN <<>>
    ELSE IF Len(pages) = 1 THEN Head(pages)
    ELSE Head(pages) \o <<NL, NL>> \o JoinPages(Tail(pages))

\* Mutation of ExtractRaises: the check for an empty pages list is missing.
ExtractRaises_OpenOnly(pdf) == ~pdf.readable

\* Whether extract_text_from_pdf raises ValueError: the file cannot be
\* opened, or no page yields text.
ExtractRaises(pdf) == ~pdf.readable \/ PageTexts(pdf.pages) = <<>>

\* extract_text_from_pdf, when it returns.
ExtractText(pdf) == JoinPages(PageTexts(pdf.pages))

\* ------------------------------------------------------- embedding port
\* EmbeddingProvider: the model is abstracted to one deterministic feature
\* of the text, the number of "a" characters in it.
RECURSIVE CountA(_)
CountA(txt) ==
    IF txt = <<>> THEN 0
    ELSE (IF Head(txt) = "a" THEN 1 ELSE 0) + CountA(Tail(txt))

\* EmbeddingProvider.embed_query
EmbedQuery(txt) == CountA(txt)

\* EmbeddingProvider.embed_texts: one batched call, one vector per text.
EmbedTexts(texts) == [i \in 1..Len(texts) |-> CountA(texts[i])]

\* ------------------------------------------------------------ vector store
\* Collection names used by requests.
Collections == {"default", "other"}

\* The filename of every upload.
Filename == "doc.pdf"

\* The store is a function from the names of the existing collections to
\* their records, in insertion order.
EmptyStore == [c \in {} |-> <<>>]

\* VectorStore._get_collection: get_or_create_collection.
GetCollection(st, name) ==
    IF name \in DOMAIN st THEN st
    ELSE [c \in (DOMAIN st) \cup {name} |-> IF c = name THEN <<>> ELSE st[c]]

\* The ids of the records of a collection.
IdsOf(recs) == {recs[i].id : i \in 1..Len(recs)}

\* Collection.add: the records are appended; a record whose id is already
\* present is not stored again.
RECURSIVE CollAdd(_, _)
CollAdd(recs, new) ==
    IF new = <<>> THEN recs
    ELSE IF Head(new).id \in IdsOf(recs) THEN CollAdd(recs, Tail(new))
    ELSE CollAdd(Append(recs, Head(new)), Tail(new))

\* VectorStore.add_chunks
AddChunks(st, texts, embeddings, chunk_ids, metadatas, collection) ==
    IF texts = <<>> THEN st
    ELSE LET withColl == GetCollection(st, collection)
             records == [i \in 1..Len(texts) |->
                            [id |-> chunk_ids[i],
                             document |-> texts[i],
                             embedding |-> embeddings[i],
                             metadata |-> metadatas[i]]]
         IN  [withColl EXCEPT ![collection] = CollAdd(@, records)]

\* Mutation of DeleteDocument: the document is deleted from every collection.
DeleteDocument_Everywhere(st, document_id, collection) ==
    [k \in DOMAIN GetCollection(st, collection) |->
        SelectSeq(GetCollection(st, collection)[k],
                  LAMBDA r : r.metadata.document_id # document_id)]

\* Mutation of DeleteDocument: the whole collection is emptied.
DeleteDocument_WholeCollection(st, document_id, collection) ==
    [GetCollection(st, collection) EXCEPT ![collection] = <<>>]

\* VectorStore.delete_document: the store afterwards.
DeleteDocument(st, document_id, collection) ==
    LET withColl == GetCollection(st, collection)
    IN  [withColl EXCEPT ![collection] =
            SelectSeq(@, LAMBDA r : r.metadata.document_id # document_id)]

\* VectorStore.delete_document: the number of chunks deleted.
DeleteCount(st, document_id, collection) ==
    IF collection \in DOMAIN st
    THEN Len(SelectSeq(st[collection],
                       LAMBDA r : r.metadata.document_id = document_id))
    ELSE 0

\* -------------------------------------------------------------- ingestion
\* Mutation of Metadata: chunk_index counts from 1.
Metadata_OneBased(document_id, filename, n) ==
    [i \in 1..n |-> [document_id |-> document_id,
                     filename |-> filename,
                     chunk_index |-> i]]

\* metadata list of IngestionService.ingest_pdf
Metadata(document_id, filename, n) ==
    [i \in 1..n |-> [document_id |-> document_id,
                     filename |-> filename,
                     chunk_index |-> i - 1]]

\* Mutation of ChunkIds: the ids do not carry the document id.
ChunkIds_NoDocument(document_id, n) == [i \in 1..n |-> <<0, "_chunk_", i - 1>>]

\* chunk_ids of IngestionService.ingest_pdf: f"{document_id}_chunk_{i}"
ChunkIds(document_id, n) == [i \in 1..n |-> <<document_id, "_chunk_", i - 1>>]

\* The dict ingest_pdf returns.
IngestResult(document_id, filename, chunks, collection_name) ==
    [document_id |-> document_id,
     filename |-> filename,
     chunk_count |-> Len(chunks),
     collection |-> collection_name,
     status |-> "success"]

\* What the caller sees when a step of a pipeline raises.
Failure(error) == [status |-> "error", error |-> error]

\* No value yet.
None == [status |-> "none"]

\* ----------------------------------------------------------------- search
\* Scores and distances are fixed-point numbers in units of 1e-5.
ONE == 100000

Abs(x) == IF x < 0 THEN 0 - x ELSE x

Min(x, y) == IF x <= y THEN x ELSE y

\* The distance the index reports between a query vector and a stored one.
IndexDistance(q, e) == Abs(q - e) * 12345

\* round(x, 4) for x >= 0: to the nearest multiple of 1e-4, ties to even.
Round4(x) ==
    LET q == x \div 10
        r == x % 10
    IN  IF r < 5 THEN q * 10
        ELSE IF r > 5 THEN (q + 1) * 10
        ELSE IF q % 2 = 0 THEN q * 10 ELSE (q + 1) * 10

\* Collection.query: the n records nearest to q, nearest first, records at
\* equal distance in insertion order.
RECURSIVE Nearest(_, _, _)
Nearest(recs, q, n) ==
    IF n = 0 \/ recs = <<>> THEN <<>>
    ELSE LET best == CHOOSE i \in 1..Len(recs) :
                        \A j \in 1..Len(recs) :
                            \/ IndexDistance(q, recs[i].embedding)
                                   < IndexDistance(q, recs[j].embedding)
                            \/ /\ IndexDistance(q, recs[i].embedding)
                                      = IndexDistance(q, recs[j].embedding)
                               /\ i <= j
             others == [k \in 1..(Len(recs) - 1) |->
                           IF k < best THEN recs[k] ELSE recs[k + 1]]
         IN  <<recs[best]>> \o Nearest(others, q, n - 1)

\* Mutation of Score: the distance itself is rounded and reported.
Score_NotInverted(distance) == Round4(distance)

\* round(1.0 - distance, 4)
Score(distance) == Round4(ONE - distance)

\* The loop of VectorStore.search over the answer of Collection.query: one
\* dict per hit, in the order of the answer.
Retrieved(hits, query_embedding) ==
    [i \in 1..Len(hits) |->
        [text |-> hits[i].document,
         score |-> Score(IndexDistance(query_embedding, hits[i].embedding)),
         metadata |-> hits[i].metadata]]

\* VectorStore.search: the list it returns.
Search(st, query_embedding, top_k, collection) ==
    LET recs == GetCollection(st, collection)[collection]
    IN  IF Len(recs) = 0 THEN <<>>
        ELSE Retrieved(Nearest(recs, query_embedding, Min(top_k, Len(recs))),
                       query_embedding)

\* The orders in which a search port may hand back the same hits.
Orderings(hits) ==
    {[i \in 1..Len(hits) |-> hits[p[i]]] :
        p \in {f \in [1..Len(hits) -> 1..Len(hits)] :
                  \A i, j \in 1..Len(hits) : f[i] = f[j] => i = j}}

\* -------------------------------------------------------------- retrieval
\* Length of the passage preview in a source summary.
PreviewLen == 200

\* r["text"][:200] + "..." if len(r["text"]) > 200 else r["text"]
Preview(txt) ==
    IF Len(txt) > PreviewLen
    THEN SubSeq(txt, 1, PreviewLen) \o <<DOT, DOT, DOT>>
    ELSE txt

\* The sources list built by ask and ask_stream.
Sources(results) ==
    [i \in 1..Len(results) |->
        [text |-> Preview(results[i].text),
         score |-> Round4(results[i].score),
         metadata |-> results[i].metadata]]

\* The fixed answer for a search without results.
NoDocumentsFound == "No documents found. Please upload some documents first."

\* Mutation of NoResults: the check for an empty result list is missing.
NoResults_Never(results) == FALSE

\* "if not results": the search returned nothing.
NoResults(results) == results = <<>>

\* Questions asked in the model.
Questions == {<<"b", "a", "a">>}

\* Answers the generation backend returns in one piece.
Answers == {"answer"}

\* The content of the i-th chunk of a streamed answer: the backend sends
\* chunks with text, here the numeral of the position, and chunks with empty
\* content.
FragmentsAt(i) == {"", ToString(i)}

\* The dict ask returns.
AskResult(answer, sources) ==
    [status |-> "success", answer |-> answer, sources |-> sources]

\* -------------------------------------------------------------- streaming
\* What ask_stream yields: the sources dict, or a token string.
DictValue(sources) == [isdict |-> TRUE, value |-> [sources |-> sources]]

StrValue(token) == [isdict |-> FALSE, value |-> token]

\* Mutation of EventFor: every yielded value is sent as a token.
EventFor_TokenOnly(chunk) ==
    [event |-> "token", data |-> [token |-> chunk.value]]

\* event_stream: the server-sent event for one value yielded by ask_stream.
EventFor(chunk) ==
    IF chunk.isdict
    THEN [event |-> "sources", data |-> chunk.value]
    ELSE [event |-> "token", data |-> [token |-> chunk.value]]

\* event_stream: the closing event.
DoneEvent == [event |-> "done", data |-> <<>>]

\* Mutation of EmitsDone: the done event is yielded in a finally block, also
\* when ask_stream raised.
EmitsDone_Finally(ended) == ended \in {"exhausted", "raised"}

\* event_stream reaches its last line, the yield of the done event, when
\* the loop over ask_stream ends because ask_stream is exhausted.
EmitsDone(ended) == ended = "exhausted"

\* Mutation of AfterSearch: generation starts before the sources are yielded.
AfterSearch_GenerateFirst == "generate"

\* ask_stream after the search: it yields the sources, then either the
\* fixed answer or the streamed generation.
AfterSearch == "sources"

AfterSources(results) == IF NoResults(results) THEN "canned" ELSE "generate"

\* ------------------------------------------------------------------ state
\* store      the collections of the vector store
\* next_uuid  the next document id uuid4 mints
\* ing        the ingest_pdf invocation (upload request) in progress
\* ask        the ask invocation (POST /query) in progress
\* stream     the ask_stream generator driven by event_stream
\*            (POST /query/stream) in progress
\* del        the delete_document call (DELETE /documents/{id}) in progress
VARIABLES store, next_uuid, ing, ask, stream, del

serviceVars == <<store, next_uuid, ing, ask, stream, del>>

\* The same objects called directly by concurrent callers, outside the
\* requests above:
\* srch   one VectorStore.search call, statement by statement
\* jobs   the ingest_pdf invocations in progress, one record per caller
\* conv   two distances the index reports and the scores made from them
VARIABLES srch, jobs, conv

libraryVars == <<srch, jobs, conv>>

vars == <<chunk_size, chunk_overlap, text, raw_chunks, segments, chunk_pc,
          store, next_uuid, ing, ask, stream, del, srch, jobs, conv>>

IngIdle ==
    [pc |-> "idle", pdf |-> PdfUnreadable, collection_name |-> "default",
     document_id |-> 0, text |-> <<>>, chunks |-> <<>>, embeddings |-> <<>>,
     stored |-> 0, result |-> None, log |-> <<>>]

AskIdle ==
    [pc |-> "idle", question |-> <<>>, collection |-> "default", top_k |-> 1,
     query_embedding |-> 0, results |-> <<>>, result |-> None, log |-> <<>>]

StreamIdle ==
    [pc |-> "idle", question |-> <<>>, collection |-> "default", top_k |-> 1,
     query_embedding |-> 0, results |-> <<>>, llm_out |-> <<>>,
     pending |-> "", ended |-> "no", cut |-> 0, events |-> <<>>,
     trace |-> <<>>]

DelIdle ==
    [pc |-> "idle", document_id |-> 0, collection |-> "default",
     deleted |-> 0, result |-> None]

SrchIdle ==
    [pc |-> "idle", collection |-> "default", top_k |-> 1,
     query_embedding |-> 0, queried |-> FALSE, n_results |-> 0, held |-> 0,
     results |-> <<>>, sources |-> <<>>]

ConvIdle == [pc |-> "unused", a |-> 0, b |-> 0, score_a |-> 0, score_b |-> 0]

LibraryIdle ==
    /\ srch = SrchIdle
    /\ jobs = <<>>
    /\ conv = ConvIdle

ServiceInit ==
    /\ store = EmptyStore
    /\ next_uuid = 1
    /\ ing = IngIdle
    /\ ask = AskIdle
    /\ stream = StreamIdle
    /\ del = DelIdle

ChunkRunIdle ==
    /\ text = <<>>
    /\ raw_chunks = <<>>
    /\ segments = <<>>
    /\ chunk_pc = "unused"

\* lifespan: the Chunker is built once from the settings, the store is
\* opened, no request is in progress.
Init ==
    /\ \E cfg \in ChunkerConfigs :
          /\ chunk_size = cfg[1]
          /\ chunk_overlap = cfg[2]
    /\ ChunkRunIdle
    /\ ServiceInit
    /\ LibraryIdle

\* The endpoints are coroutines that run the service call on the event loop:
\* a request is taken up when no other request is in progress.
Quiet ==
    ing.pc = "idle" /\ ask.pc = "idle" /\ stream.pc = "idle" /\ del.pc = "idle"

\* ---------------------------------------------------------- upload request
\* ingest_pdf is entered: line 53 mints the document id.
IngestStart(pdf, collection_name) ==
    /\ Quiet
    /\ next_uuid <= MaxIngests
    /\ ing' = [IngIdle EXCEPT !.pc = "extract", !.pdf = pdf,
                              !.collection_name = collection_name,
                              !.document_id = next_uuid]
    /\ next_uuid' = next_uuid + 1
    /\ UNCHANGED <<chunkerVars, libraryVars, del, store, ask, stream>>

\* Mutation of Raise: the failing step is retried.
Raise_Retry(rec, step, error) == [rec EXCEPT !.log = Append(@, step)]

\* A step of a pipeline raises: the invocation ends with the failure.
Raise(rec, step, error) ==
    [rec EXCEPT !.pc = "failed", !.log = Append(@, step),
                !.result = Failure(error)]

\* Step 1: extract_text_from_pdf
IngestExtract ==
    /\ ing.pc = "extract"
    /\ \/ /\ ExtractRaises(ing.pdf)
          /\ ing' = Raise(ing, "extract", "ValueError")
       \/ /\ ~ExtractRaises(ing.pdf)
          /\ ing' = [ing EXCEPT !.pc = "chunk", !.log = Append(@, "extract"),
                                !.text = ExtractText(ing.pdf)]
    /\ UNCHANGED <<chunkerVars, libraryVars, del, store, next_uuid, ask, stream>>

\* Step 2: self.chunker.chunk(text)
IngestChunk ==
    /\ ing.pc = "chunk"
    /\ ing' = [ing EXCEPT !.pc = "embed", !.log = Append(@, "chunk"),
                          !.chunks = Chunk(ing.text, chunk_size, chunk_overlap)]
    /\ UNCHANGED <<chunkerVars, libraryVars, del, store, next_uuid, ask, stream>>

\* Step 3: embed_texts(chunks), which returns or raises.
IngestEmbed ==
    /\ ing.pc = "embed"
    /\ \/ ing' = [ing EXCEPT !.pc = "store", !.log = Append(@, "embed_texts"),
                             !.embeddings = EmbedTexts(ing.chunks)]
       \/ ing' = Raise(ing, "embed_texts", "EmbeddingError")
    /\ UNCHANGED <<chunkerVars, libraryVars, del, store, next_uuid, ask, stream>>

\* Step 4: add_chunks, which returns or raises, and the result dict.
IngestStore ==
    /\ ing.pc = "store"
    /\ \/ LET n == Len(ing.chunks)
              after == AddChunks(store, ing.chunks, ing.embeddings,
                                 ChunkIds(ing.document_id, n),
                                 Metadata(ing.document_id, Filename, n),
                                 ing.collection_name)
              before == GetCollection(store, ing.collection_name)
          IN  /\ store' = after
              /\ ing' = [ing EXCEPT
                            !.pc = "done",
                            !.log = Append(@, "add_chunks"),
                            !.stored = IF ing.collection_name \in DOMAIN after
                                       THEN Len(after[ing.collection_name])
                                            - Len(before[ing.collection_name])
                                       ELSE 0,
                            !.result = IngestResult(ing.document_id, Filename,
                                                    ing.chunks,
                                                    ing.collection_name)]
       \/ /\ ing' = Raise(ing, "add_chunks", "StoreError")
          /\ UNCHANGED store
    /\ UNCHANGED <<chunkerVars, libraryVars, del, next_uuid, ask, stream>>

\* upload_document answers the request.
IngestReturn ==
    /\ ing.pc \in {"done", "failed"}
    /\ ing' = IngIdle
    /\ UNCHANGED <<chunkerVars, libraryVars, del, store, next_uuid, ask, stream>>

\* The dict IngestionService.delete_document returns.
DeleteResult(document_id, collection_name) ==
    [document_id |-> document_id,
     collection |-> collection_name,
     status |-> "deleted"]

\* DELETE /documents/{document_id}: IngestionService.delete_document calls
\* VectorStore.delete_document, which returns the number of chunks deleted,
\* and returns its dict.
Delete(document_id, collection) ==
    /\ Quiet
    /\ store' = DeleteDocument(store, document_id, collection)
    /\ del' = [pc |-> "done", document_id |-> document_id,
               collection |-> collection,
               deleted |-> DeleteCount(store, document_id, collection),
               result |-> DeleteResult(document_id, collection)]
    /\ UNCHANGED <<chunkerVars, libraryVars, next_uuid, ing, ask, stream>>

\* delete_document (the endpoint) answers the request.
DeleteReturn ==
    /\ del.pc = "done"
    /\ del' = DelIdle
    /\ UNCHANGED <<chunkerVars, libraryVars, store, next_uuid, ing, ask, stream>>

\* ----------------------------------------------------------- POST /query
\* RetrieverService.ask is entered.
AskStart(question, collection, top_k) ==
    /\ Quiet
    /\ ask' = [AskIdle EXCEPT !.pc = "embed", !.question = question,
                              !.collection = collection, !.top_k = top_k]
    /\ UNCHANGED <<chunkerVars, libraryVars, del, store, next_uuid, ing, stream>>

\* Step 1: embed_query(question), which returns or raises.
AskEmbed ==
    /\ ask.pc = "embed"
    /\ \/ ask' = [ask EXCEPT !.pc = "search", !.log = Append(@, "embed_query"),
                             !.query_embedding = EmbedQuery(ask.question)]
       \/ ask' = Raise(ask, "embed_query", "EmbeddingError")
    /\ UNCHANGED <<chunkerVars, libraryVars, del, store, next_uuid, ing, stream>>

\* Step 2: vector_store.search, which returns or raises; without results
\* ask returns the fixed answer.
AskSearch ==
    /\ ask.pc = "search"
    /\ \/ LET results == Search(store, ask.query_embedding, ask.top_k,
                                ask.collection)
          IN  /\ store' = GetCollection(store, ask.collection)
              /\ ask' = IF NoResults(results)
                        THEN [ask EXCEPT
                                 !.pc = "done",
                                 !.log = Append(@, "search"),
                                 !.results = results,
                                 !.result = AskResult(NoDocumentsFound, <<>>)]
                        ELSE [ask EXCEPT
                                 !.pc = "generate",
                                 !.log = Append(@, "search"),
                                 !.results = results]
       \/ /\ ask' = Raise(ask, "search", "StoreError")
          /\ UNCHANGED store
    /\ UNCHANGED <<chunkerVars, libraryVars, del, next_uuid, ing, stream>>

\* Steps 3 and 4: llm_service.generate, which returns or raises, and the
\* result dict.
AskGenerate ==
    /\ ask.pc = "generate"
    /\ \/ \E answer \in Answers :
             ask' = [ask EXCEPT !.pc = "done", !.log = Append(@, "generate"),
                                !.result = AskResult(answer,
                                                     Sources(ask.results))]
       \/ ask' = Raise(ask, "generate", "LLMError")
    /\ UNCHANGED <<chunkerVars, libraryVars, del, store, next_uuid, ing, stream>>

\* ask_question answers the request.
AskReturn ==
    /\ ask.pc \in {"done", "failed"}
    /\ ask' = AskIdle
    /\ UNCHANGED <<chunkerVars, libraryVars, del, store, next_uuid, ing, stream>>

\* ---------------------------------------------------- POST /query/stream
\* event_stream yields the server-sent event for a value of ask_stream.
Emit(rec, chunk) ==
    [rec EXCEPT !.events = Append(@, EventFor(chunk)),
                !.trace = Append(@, EventFor(chunk).event)]

\* ask_stream raises: the exception leaves event_stream too.
StreamRaise(rec, step) ==
    [rec EXCEPT !.pc = "failed", !.ended = "raised",
                !.cut = Len(rec.events), !.trace = Append(@, step)]

\* The response starts to iterate event_stream.
StreamStart(question, collection, top_k) ==
    /\ Quiet
    /\ stream' = [StreamIdle EXCEPT !.pc = "embed", !.question = question,
                                    !.collection = collection,
                                    !.top_k = top_k]
    /\ UNCHANGED <<chunkerVars, libraryVars, del, store, next_uuid, ing, ask>>

\* embed_query(question), which returns or raises.
StreamEmbed ==
    /\ stream.pc = "embed"
    /\ \/ stream' = [stream EXCEPT
                        !.pc = "search",
                        !.trace = Append(@, "embed_query"),
                        !.query_embedding = EmbedQuery(stream.question)]
       \/ stream' = StreamRaise(stream, "embed_query")
    /\ UNCHANGED <<chunkerVars, libraryVars, del, store, next_uuid, ing, ask>>

\* vector_store.search, which returns or raises.
StreamSearch ==
    /\ stream.pc = "search"
    /\ \/ /\ store' = GetCollection(store, stream.collection)
          /\ stream' = [stream EXCEPT
                           !.pc = AfterSearch,
                           !.trace = Append(@, "search"),
                           !.results = Search(store, stream.query_embedding,
                                              stream.top_k, stream.collection)]
       \/ /\ stream' = StreamRaise(stream, "search")
          /\ UNCHANGED store
    /\ UNCHANGED <<chunkerVars, libraryVars, del, next_uuid, ing, ask>>

\* yield {"sources": ...}
StreamYieldSources ==
    /\ stream.pc = "sources"
    /\ LET sources == IF NoResults(stream.results)
                      THEN <<>>
                      ELSE Sources(stream.results)
           next == AfterSources(stream.results)
       IN  stream' = [Emit(stream, DictValue(sources)) EXCEPT !.pc = next]
    /\ UNCHANGED <<chunkerVars, libraryVars, del, store, next_uuid, ing, ask>>

\* yield "No documents found...", then ask_stream returns.
StreamYieldCanned ==
    /\ stream.pc = "canned"
    /\ stream' = [Emit(stream, StrValue(NoDocumentsFound)) EXCEPT
                     !.pc = "exhausted", !.ended = "exhausted"]
    /\ UNCHANGED <<chunkerVars, libraryVars, del, store, next_uuid, ing, ask>>

\* generate_stream starts: client.chat(stream=True), which returns the
\* chunk iterator or raises.
StreamChat ==
    /\ stream.pc = "generate"
    /\ \/ stream' = [stream EXCEPT !.pc = "iterate",
                                   !.trace = Append(@, "chat")]
       \/ stream' = StreamRaise(stream, "chat")
    /\ UNCHANGED <<chunkerVars, libraryVars, del, store, next_uuid, ing, ask>>

\* generate_stream asks the backend for the next chunk: a chunk arrives
\* (one with content is yielded next), the answer is over, or the backend
\* fails.
StreamNextChunk ==
    /\ stream.pc = "iterate"
    /\ \/ \E token \in FragmentsAt(Len(stream.llm_out) + 1) :
             /\ Len(stream.llm_out) < MaxFragments
             /\ stream' = [stream EXCEPT
                              !.llm_out = Append(@, token),
                              !.trace = Append(@, IF token # ""
                                                  THEN "fragment"
                                                  ELSE "empty"),
                              !.pending = token,
                              !.pc = IF token # "" THEN "token" ELSE "iterate"]
       \/ stream' = [stream EXCEPT !.pc = "exhausted", !.ended = "exhausted"]
       \/ stream' = StreamRaise(stream, "next")
    /\ UNCHANGED <<chunkerVars, libraryVars, del, store, next_uuid, ing, ask>>

\* yield token
StreamYieldToken ==
    /\ stream.pc = "token"
    /\ stream' = [Emit(stream, StrValue(stream.pending)) EXCEPT
                     !.pc = "iterate", !.pending = ""]
    /\ UNCHANGED <<chunkerVars, libraryVars, del, store, next_uuid, ing, ask>>

\* yield "event: done"
StreamDone ==
    /\ stream.pc \in {"exhausted", "failed", "cancelled"}
    /\ EmitsDone(stream.ended)
    /\ stream' = [stream EXCEPT !.pc = "completed",
                                !.events = Append(@, DoneEvent),
                                !.trace = Append(@, "done")]
    /\ UNCHANGED <<chunkerVars, libraryVars, del, store, next_uuid, ing, ask>>

\* The consumer closes the stream before it is complete.
StreamCancel ==
    /\ stream.pc \in {"embed", "search", "sources", "canned", "generate",
                      "iterate", "token", "exhausted"}
    /\ stream' = [stream EXCEPT !.pc = "cancelled", !.ended = "closed",
                                !.cut = Len(stream.events)]
    /\ UNCHANGED <<chunkerVars, libraryVars, del, store, next_uuid, ing, ask>>

\* The response is over.
StreamClose ==
    /\ stream.pc \in {"completed", "failed", "cancelled"}
    /\ stream' = StreamIdle
    /\ UNCHANGED <<chunkerVars, libraryVars, del, store, next_uuid, ing, ask>>

\* ------------------------------------------------------------------- spec
Next ==
    \/ \E pdf \in Pdfs, c \in Collections : IngestStart(pdf, c)
    \/ IngestExtract
    \/ IngestChunk
    \/ IngestEmbed
    \/ IngestStore
    \/ IngestReturn
    \/ \E d \in 1..MaxIngests, c \in Collections : Delete(d, c)
    \/ DeleteReturn
    \/ \E q \in Questions, c \in Collections, k \in 1..MaxTopK :
          AskStart(q, c, k)
    \/ AskEmbed
    \/ AskSearch
    \/ AskGenerate
    \/ AskReturn
    \/ \E q \in Questions, c \in Collections, k \in 1..MaxTopK :
          StreamStart(q, c, k)
    \/ StreamEmbed
    \/ StreamSearch
    \/ StreamYieldSources
    \/ StreamYieldCanned
    \/ StreamChat
    \/ StreamNextChunk
    \/ StreamYieldToken
    \/ StreamDone
    \/ StreamCancel
    \/ StreamClose

Spec == Init /\ [][Next]_vars

\* ------------------------------------------------- the chunker on its own
\* A Chunker of any accepted configuration is handed any text.
InitChunker ==
    /\ \E cfg \in ChunkerConfigs :
          /\ chunk_size = cfg[1]
          /\ chunk_overlap = cfg[2]
    /\ text \in TextsUpTo(MaxTextLen)
    /\ raw_chunks = <<>>
    /\ segments = <<>>
    /\ chunk_pc = "ready"
    /\ ServiceInit
    /\ LibraryIdle

\* chunker.chunk(text)
ChunkCall ==
    /\ chunk_pc = "ready"
    /\ raw_chunks' = RawChunks(text, chunk_size)
    /\ segments' = Chunk(text, chunk_size, chunk_overlap)
    /\ chunk_pc' = "done"
    /\ UNCHANGED <<chunk_size, chunk_overlap, text, serviceVars, libraryVars>>

NextChunker == ChunkCall

SpecChunker == InitChunker /\ [][NextChunker]_vars

\* ------------------------------------------ constructing a Chunker directly
\* Chunker(chunk_size, chunk_overlap) is called with any two integers, and
\* the object it returns, if any, is handed any text.
ChunkerArgs ==
    ((0 - MaxNegArg)..MaxChunkSize) \X ((0 - MaxNegArg)..MaxChunkSize)

InitConstruct ==
    /\ \E args \in ChunkerArgs :
          /\ chunk_size = args[1]
          /\ chunk_overlap = args[2]
    /\ text \in TextsUpTo(MaxTextLen)
    /\ raw_chunks = <<>>
    /\ segments = <<>>
    /\ chunk_pc = "new"
    /\ ServiceInit
    /\ LibraryIdle

\* __init__ returns.
Construct ==
    /\ chunk_pc = "new"
    /\ ChunkerInit(chunk_size, chunk_overlap)
    /\ chunk_pc' = "ready"
    /\ UNCHANGED <<chunk_size, chunk_overlap, text, raw_chunks, segments,
                   serviceVars, libraryVars>>

\* __init__ raises ValueError.
ConstructRaise ==
    /\ chunk_pc = "new"
    /\ ~ChunkerInit(chunk_size, chunk_overlap)
    /\ chunk_pc' = "rejected"
    /\ UNCHANGED <<chunk_size, chunk_overlap, text, raw_chunks, segments,
                   serviceVars, libraryVars>>

\* chunker.chunk(text) returns.
ChunkReturn ==
    /\ chunk_pc = "ready"
    /\ ~ChunkRaises(text, chunk_size)
    /\ raw_chunks' = RawChunks(text, chunk_size)
    /\ segments' = Chunk(text, chunk_size, chunk_overlap)
    /\ chunk_pc' = "done"
    /\ UNCHANGED <<chunk_size, chunk_overlap, text, serviceVars, libraryVars>>

\* chunker.chunk(text) ends in RecursionError.
ChunkRaise ==
    /\ chunk_pc = "ready"
    /\ ChunkRaises(text, chunk_size)
    /\ chunk_pc' = "raised"
    /\ UNCHANGED <<chunk_size, chunk_overlap, text, raw_chunks, segments,
                   serviceVars, libraryVars>>

NextConstruct ==
    \/ Construct
    \/ ConstructRaise
    \/ ChunkReturn
    \/ ChunkRaise

SpecConstruct == InitConstruct /\ [][NextConstruct]_vars

\* -------------------------------------- the store under concurrent callers
\* One caller runs VectorStore.search statement by statement, as ask and
\* ask_stream call it, while other callers add and delete records of the
\* same store between its statements.  Collection.query is the search port;
\* the order of its answer is the port's own.
ChunkLists == {<< <<"a">> >>, << <<"a", "a">>, <<"b">> >>}

InitRace ==
    /\ chunk_size = MaxChunkSize
    /\ chunk_overlap = 0
    /\ ChunkRunIdle
    /\ ServiceInit
    /\ LibraryIdle

\* Another caller's ingest_pdf reaches add_chunks.
OtherAdd(texts, collection) ==
    /\ next_uuid <= MaxIngests
    /\ store' = AddChunks(store, texts, EmbedTexts(texts),
                          ChunkIds(next_uuid, Len(texts)),
                          Metadata(next_uuid, Filename, Len(texts)),
                          collection)
    /\ next_uuid' = next_uuid + 1
    /\ UNCHANGED <<chunkerVars, libraryVars, del, ing, ask, stream>>

\* Another caller's delete_document.
OtherDelete(document_id, collection) ==
    /\ store' = DeleteDocument(store, document_id, collection)
    /\ UNCHANGED <<chunkerVars, libraryVars, del, next_uuid, ing, ask, stream>>

\* search(query_embedding, collection, top_k) is entered.
SearchCall(question, collection, top_k) ==
    /\ srch.pc = "idle"
    /\ srch' = [SrchIdle EXCEPT !.pc = "get", !.collection = collection,
                                !.top_k = top_k,
                                !.query_embedding = EmbedQuery(question)]
    /\ UNCHANGED <<chunkerVars, serviceVars, jobs, conv>>

\* coll = self._get_collection(collection)
SearchGetCollection ==
    /\ srch.pc = "get"
    /\ store' = GetCollection(store, srch.collection)
    /\ srch' = [srch EXCEPT !.pc = "empty"]
    /\ UNCHANGED <<chunkerVars, next_uuid, ing, ask, stream, del, jobs, conv>>

\* if coll.count() == 0: return []
SearchEmptyCheck ==
    /\ srch.pc = "empty"
    /\ srch' = IF Len(store[srch.collection]) = 0
               THEN [srch EXCEPT !.pc = "returned"]
               ELSE [srch EXCEPT !.pc = "count"]
    /\ UNCHANGED <<chunkerVars, serviceVars, jobs, conv>>

\* n_results = min(top_k, coll.count())
SearchCount ==
    /\ srch.pc = "count"
    /\ srch' = [srch EXCEPT
                   !.pc = "query",
                   !.n_results = Min(srch.top_k, Len(store[srch.collection]))]
    /\ UNCHANGED <<chunkerVars, serviceVars, jobs, conv>>

\* coll.query(...) and the conversion loop.  A query for no results raises;
\* a query for more results than the collection holds raises or answers
\* with what is held, depending on the index version.
SearchQuery ==
    /\ srch.pc = "query"
    /\ LET recs == store[srch.collection]
           asked == [srch EXCEPT !.queried = TRUE, !.held = Len(recs)]
       IN  \/ /\ srch.n_results = 0 \/ srch.n_results > Len(recs)
              /\ srch' = [asked EXCEPT !.pc = "raised"]
           \/ /\ srch.n_results > 0
              /\ \E hits \in Orderings(Nearest(recs, srch.query_embedding,
                                                Min(srch.n_results, Len(recs)))) :
                    srch' = [asked EXCEPT
                                !.pc = "returned",
                                !.results = Retrieved(hits,
                                                      srch.query_embedding)]
    /\ UNCHANGED <<chunkerVars, serviceVars, jobs, conv>>

\* The caller builds its sources list from the returned list.
SearchSources ==
    /\ srch.pc = "returned"
    /\ srch' = [srch EXCEPT !.pc = "summarised",
                            !.sources = Sources(srch.results)]
    /\ UNCHANGED <<chunkerVars, serviceVars, jobs, conv>>

\* The call is over.
SearchEnd ==
    /\ srch.pc \in {"summarised", "raised"}
    /\ srch' = SrchIdle
    /\ UNCHANGED <<chunkerVars, serviceVars, jobs, conv>>

NextRace ==
    \/ \E texts \in ChunkLists, collection \in Collections :
          OtherAdd(texts, collection)
    \/ \E document_id \in 1..MaxIngests, collection \in Collections :
          OtherDelete(document_id, collection)
    \/ \E question \in Questions, collection \in Collections,
          top_k \in 1..MaxTopK :
          SearchCall(question, collection, top_k)
    \/ SearchGetCollection
    \/ SearchEmptyCheck
    \/ SearchCount
    \/ SearchQuery
    \/ SearchSources
    \/ SearchEnd

SpecRace == InitRace /\ [][NextRace]_vars

\* ------------------------------------------------- the score conversion
\* The index reports two distances; search converts each to a score.
InitScore ==
    /\ chunk_size = MaxChunkSize
    /\ chunk_overlap = 0
    /\ ChunkRunIdle
    /\ ServiceInit
    /\ srch = SrchIdle
    /\ jobs = <<>>
    /\ \E a, b \in 0..MaxDistance :
          conv = [ConvIdle EXCEPT !.pc = "reported", !.a = a, !.b = b]

\* similarity = 1.0 - distance; "score": round(similarity, 4)
Convert ==
    /\ conv.pc = "reported"
    /\ conv' = [conv EXCEPT !.pc = "converted",
                            !.score_a = Score(conv.a),
                            !.score_b = Score(conv.b)]
    /\ UNCHANGED <<chunkerVars, serviceVars, srch, jobs>>

NextScore == Convert

SpecScore == InitScore /\ [][NextScore]_vars

\* ------------------------------------------------- concurrent ingestions
\* Several callers run ingest_pdf on the one IngestionService at once; their
\* statements interleave freely.  jobs[j] holds the local variables of
\* caller j's invocation; uuid4 never repeats a value.
Callers == 1..MaxIngests

InitJobs ==
    /\ chunk_size = MaxChunkSize
    /\ chunk_overlap = 0
    /\ ChunkRunIdle
    /\ ServiceInit
    /\ srch = SrchIdle
    /\ conv = ConvIdle
    /\ jobs = [j \in Callers |-> IngIdle]

\* Caller j enters ingest_pdf: line 53 mints the document id.
JobStart(j, pdf, collection_name) ==
    /\ jobs[j].pc = "idle"
    /\ jobs' = [jobs EXCEPT ![j] =
                   [IngIdle EXCEPT !.pc = "extract", !.pdf = pdf,
                                   !.collection_name = collection_name,
                                   !.document_id = next_uuid]]
    /\ next_uuid' = next_uuid + 1
    /\ UNCHANGED <<chunkerVars, store, ing, ask, stream, del, srch, conv>>

\* Step 1: extract_text_from_pdf
JobExtract(j) ==
    /\ jobs[j].pc = "extract"
    /\ \/ /\ ExtractRaises(jobs[j].pdf)
          /\ jobs' = [jobs EXCEPT ![j] = Raise(@, "extract", "ValueError")]
       \/ /\ ~ExtractRaises(jobs[j].pdf)
          /\ jobs' = [jobs EXCEPT ![j] =
                         [@ EXCEPT !.pc = "chunk",
                                   !.log = Append(@, "extract"),
                                   !.text = ExtractText(jobs[j].pdf)]]
    /\ UNCHANGED <<chunkerVars, serviceVars, srch, conv>>

\* Step 2: self.chunker.chunk(text)
JobChunk(j) ==
    /\ jobs[j].pc = "chunk"
    /\ jobs' = [jobs EXCEPT ![j] =
                   [@ EXCEPT !.pc = "embed", !.log = Append(@, "chunk"),
                             !.chunks = Chunk(jobs[j].text, chunk_size,
                                              chunk_overlap)]]
    /\ UNCHANGED <<chunkerVars, serviceVars, srch, conv>>

\* Step 3: embed_texts(chunks), which returns or raises.
JobEmbed(j) ==
    /\ jobs[j].pc = "embed"
    /\ \/ jobs' = [jobs EXCEPT ![j] =
                       [@ EXCEPT !.pc = "store",
                                 !.log = Append(@, "embed_texts"),
                                 !.embeddings = EmbedTexts(jobs[j].chunks)]]
       \/ jobs' = [jobs EXCEPT ![j] =
                       Raise(@, "embed_texts", "EmbeddingError")]
    /\ UNCHANGED <<chunkerVars, serviceVars, srch, conv>>

\* Step 4: add_chunks, which returns or raises, and the result dict.
JobStore(j) ==
    /\ jobs[j].pc = "store"
    /\ \/ LET job == jobs[j]
              n == Len(job.chunks)
              after == AddChunks(store, job.chunks, job.embeddings,
                                 ChunkIds(job.document_id, n),
                                 Metadata(job.document_id, Filename, n),
                                 job.collection_name)
              before == GetCollection(store, job.collection_name)
          IN  /\ store' = after
              /\ jobs' = [jobs EXCEPT ![j] =
                             [@ EXCEPT
                                 !.pc = "done",
                                 !.log = Append(@, "add_chunks"),
                                 !.stored =
                                     IF job.collection_name \in DOMAIN after
                                     THEN Len(after[job.collection_name])
                                          - Len(before[job.collection_name])
                                     ELSE 0,
                                 !.result = IngestResult(job.document_id,
                                                         Filename, job.chunks,
                                                         job.collection_name)]]
       \/ /\ jobs' = [jobs EXCEPT ![j] = Raise(@, "add_chunks", "StoreError")]
          /\ UNCHANGED store
    /\ UNCHANGED <<chunkerVars, next_uuid, ing, ask, stream, del, srch, conv>>

NextJobs ==
    \/ \E j \in Callers, pdf \in Pdfs, collection_name \in Collections :
          JobStart(j, pdf, collection_name)
    \/ \E j \in Callers : JobExtract(j)
    \/ \E j \in Callers : JobChunk(j)
    \/ \E j \in Callers : JobEmbed(j)
    \/ \E j \in Callers : JobStore(j)

SpecJobs == InitJobs /\ [][NextJobs]_vars

\* ------------------------------------------------------- chunker claims
\* The texts of a list, concatenated in order.
RECURSIVE Concat(_)
Concat(parts) ==
    IF parts = <<>> THEN <<>> ELSE Head(parts) \o Concat(Tail(parts))

\* The characters of a text that are not whitespace, in order.
NonSpace(txt) == SelectSeq(txt, LAMBDA c : ~IsSpace(c))

\* A text without any whitespace or punctuation boundary in it.
Indivisible(txt) == \A k \in 1..Len(txt) : txt[k] \notin {SP, NL, DOT}

\* The segments occur in txt as contiguous substrings, one after the other
\* without overlap, at or after position from.
RECURSIVE InOrder(_, _, _)
InOrder(segs, txt, from) ==
    IF segs = <<>> THEN TRUE
    ELSE LET seg == Head(segs)
         IN  \E p \in from..(Len(txt) - Len(seg) + 1) :
                /\ SubSeq(txt, p, p + Len(seg) - 1) = seg
                /\ InOrder(Tail(segs), txt, p + Len(seg))

\* C2: every segment chunk() returns is at most chunk_size long, unless it
\* is a single unit without whitespace or punctuation that is longer than
\* chunk_size; also with chunk_overlap > 0.
C2_SegmentLengthBound ==
    chunk_pc = "done" =>
        \A i \in 1..Len(segments) :
            \/ Len(segments[i]) <= chunk_size
            \/ Indivisible(segments[i])

\* C3: the base content of the segments (the segments without the overlap
\* prefixes), concatenated in order and with whitespace deleted, is the
\* input with whitespace deleted.
C3_NoDataLoss ==
    chunk_pc = "done" =>
        NonSpace(Concat(raw_chunks)) = NonSpace(text)

\* C4: with chunk_overlap = 0 every segment is a contiguous substring of the
\* input and the segments lie at increasing, non-overlapping positions.
C4_ReadingOrder ==
    (chunk_pc = "done" /\ chunk_overlap = 0) => InOrder(segments, text, 1)

\* ------------------------------------------------------- service claims
Elems(seq) == {seq[i] : i \in 1..Len(seq)}

IsPrefix(a, b) == Len(a) <= Len(b) /\ SubSeq(b, 1, Len(a)) = a

\* The token events for a sequence of tokens.
TokenEvents(tokens) ==
    [i \in 1..Len(tokens) |-> [event |-> "token", data |-> [token |-> tokens[i]]]]

\* The tokens a complete stream carries: the fragments with content that the
\* backend produced, or the fixed answer when the search found nothing.
ExpectedTokens ==
    IF stream.results = <<>>
    THEN <<NoDocumentsFound>>
    ELSE SelectSeq(stream.llm_out, LAMBDA f : f # "")

\* ask_stream's search has returned (it did not raise).
StreamSearchReturned ==
    /\ "search" \in Elems(stream.trace)
    /\ ~(stream.ended = "raised" /\ stream.trace[Len(stream.trace)] = "search")

\* ask's search has returned (it did not raise).
AskSearchReturned ==
    \/ ask.pc \in {"generate", "done"}
    \/ ask.pc = "failed" /\ "generate" \in Elems(ask.log)

\* C1: the events of a stream never show a sources event after a token
\* event nor any event after done, and a completed stream is exactly one
\* sources event, the token events of the produced fragments in order (or
\* the fixed answer), one done event.
C1_EventSequence ==
    LET ev == stream.events
    IN  /\ \A i, j \in 1..Len(ev) :
              i < j => ~(ev[i].event = "token" /\ ev[j].event = "sources")
        /\ \A i \in 1..Len(ev) : ev[i].event = "done" => i = Len(ev)
        /\ stream.pc = "completed" =>
              ev = <<[event |-> "sources",
                      data |-> [sources |-> Sources(stream.results)]]>>
                   \o TokenEvents(ExpectedTokens)
                   \o <<[event |-> "done", data |-> <<>>]>>

\* A stream over retrieved passages completed after two different fragments.
C1_Witness ==
    /\ stream.pc = "completed"
    /\ stream.results # <<>>
    /\ stream.llm_out = <<"1", "2">>

\* C5: when the search returns no passage, ask returns the fixed answer with
\* no sources, ask_stream yields an empty sources list first, and neither
\* calls the generation backend.
C5_NoGenerationWithoutResults ==
    /\ (AskSearchReturned /\ ask.results = <<>>) =>
          /\ ask.pc = "done"
          /\ ask.result = [status |-> "success", answer |-> NoDocumentsFound,
                           sources |-> <<>>]
          /\ "generate" \notin Elems(ask.log)
    /\ (StreamSearchReturned /\ stream.results = <<>>) =>
          /\ "chat" \notin Elems(stream.trace)
          /\ stream.llm_out = <<>>
          /\ stream.events # <<>> =>
                stream.events[1] = [event |-> "sources",
                                    data |-> [sources |-> <<>>]]

\* A stream over a collection that exists and is empty has completed.
C5_Witness ==
    /\ stream.pc = "completed"
    /\ stream.results = <<>>
    /\ stream.collection \in DOMAIN store
    /\ Len(stream.events) = 3

\* C6: a done event is only ever emitted for a stream whose ask_stream ran
\* to exhaustion; once ask_stream has raised or the consumer has closed the
\* stream, no event is emitted any more.
C6_NoDoneAfterFailure ==
    /\ (\E i \in 1..Len(stream.events) : stream.events[i].event = "done") =>
          stream.ended = "exhausted"
    /\ stream.ended \in {"raised", "closed"} =>
          Len(stream.events) = stream.cut

\* The backend failed in the middle of an answer, after a token was sent.
C6_Witness ==
    /\ stream.ended = "raised"
    /\ stream.trace[Len(stream.trace)] = "next"
    /\ Len(stream.events) = 2

\* The positions of the trace entries equal to x.
Positions(x) == {i \in 1..Len(stream.trace) : stream.trace[i] = x}

\* C7: the generation backend is not called before the sources event has
\* been yielded, and every fragment with content is yielded as a token
\* before the backend is asked for the next one.
C7_SourcesBeforeGeneration ==
    /\ \A i \in 1..Len(stream.trace) :
          stream.trace[i] \in {"chat", "fragment", "empty", "next"} =>
              /\ \E j \in 1..(i - 1) : stream.trace[j] = "sources"
              /\ stream.events[1].event = "sources"
    /\ \A i, j \in Positions("fragment") :
          i < j => \E k \in Positions("token") : i < k /\ k < j

\* Two fragments were produced and each was forwarded before the next.
C7_Witness ==
    /\ stream.trace = <<"embed_query", "search", "sources", "chat",
                        "fragment", "token", "fragment", "token">>
    /\ stream.pc = "iterate"

\* The steps of the two blocking pipelines, in order.
IngestOrder == <<"extract", "chunk", "embed_texts", "add_chunks">>

AskOrder == <<"embed_query", "search", "generate">>

\* What C9 says of ingest_pdf: the steps run in order, each at most once;
\* a success has run all of them; a failure ends the invocation with the
\* error.
IngestSequenced ==
    /\ IsPrefix(ing.log, IngestOrder)
    /\ ing.pc = "done" =>
          ing.log = IngestOrder /\ ing.result.status = "success"
    /\ ing.pc = "failed" => ing.result.status = "error"

\* C9 as stated: ingest_pdf and ask run their steps in order, each exactly
\* once on success; when a step raises no later step runs, nothing is
\* retried and the caller gets the failure.
C9_AsStated ==
    /\ IngestSequenced
    /\ IsPrefix(ask.log, AskOrder)
    /\ ask.pc = "done" => ask.log = AskOrder /\ ask.result.status = "success"
    /\ ask.pc = "failed" => ask.result.status = "error"

\* C9 amended: as stated, except that an ask whose search returns no passage
\* succeeds with the fixed answer after embed_query and search, without
\* calling generate.
C9_StepsInOrder ==
    /\ IngestSequenced
    /\ IsPrefix(ask.log, AskOrder)
    /\ ask.pc = "done" =>
          /\ ask.result.status = "success"
          /\ ask.log = IF ask.results = <<>>
                       THEN <<"embed_query", "search">>
                       ELSE AskOrder
    /\ ask.pc = "failed" => ask.result.status = "error"

\* An ask over ingested chunks succeeded with a generated answer.
C9_Witness ==
    /\ ask.pc = "done"
    /\ ask.log = AskOrder
    /\ Len(ask.results) = 2

\* The records of a document in a collection.
RecordsOf(document_id, collection) ==
    IF collection \in DOMAIN store
    THEN SelectSeq(store[collection],
                   LAMBDA r : r.metadata.document_id = document_id)
    ELSE <<>>

C10_ChunkCountMatchesStore ==
    ing.pc = "done" =>
        LET n == Len(Chunk(ing.text, chunk_size, chunk_overlap))
            recs == RecordsOf(ing.document_id, ing.collection_name)
            coll == store[ing.collection_name]
        IN  /\ ing.result.chunk_count = n
            /\ ing.stored = n
            /\ Len(recs) = n
            /\ \A i \in 1..n :
                  /\ recs[i].metadata.chunk_index = i - 1
                  /\ recs[i].document = ing.chunks[i]
            /\ \A i, j \in 1..Len(coll) : coll[i].id = coll[j].id => i = j
            /\ \A c \in DOMAIN store \ {ing.collection_name} :
                  RecordsOf(ing.document_id, c) = <<>>

\* A second document of several chunks was added to a collection that
\* already held one.
C10_Witness ==
    /\ ing.pc = "done"
    /\ Len(ing.chunks) >= 2
    /\ Len(store[ing.collection_name]) > Len(ing.chunks)

\* ------------------------------------------------- chunker claims, cont.
\* The last n characters of a text (the whole text when it is shorter).
TailSlice(txt, n) ==
    [k \in 1..(IF n >= Len(txt) THEN Len(txt) ELSE n) |->
        txt[Len(txt) - (IF n >= Len(txt) THEN Len(txt) ELSE n) + k]]

\* The overlap prefix the claim describes: the tail slice, started after its
\* first space when it has one.
TailPrefix(txt, n) ==
    LET slice == TailSlice(txt, n)
        spaces == {k \in 1..Len(slice) : slice[k] = SP}
    IN  IF spaces = {} THEN slice
        ELSE LET first == CHOOSE k \in spaces : \A j \in spaces : k <= j
             IN  [k \in 1..(Len(slice) - first) |-> slice[first + k]]

\* C11 as stated: with chunk_overlap > 0 and at least two returned segments,
\* every returned segment after the first begins with the overlap prefix
\* taken from the tail of the returned segment before it.
C11_AsStated ==
    (chunk_pc = "done" /\ chunk_overlap > 0 /\ Len(segments) >= 2) =>
        \A i \in 2..Len(segments) :
            IsPrefix(TailPrefix(segments[i - 1], chunk_overlap), segments[i])

\* C11 amended: with chunk_overlap > 0 and at least two returned segments,
\* the returned list is, in order, the first base chunk and, for every later
\* base chunk, the overlap prefix taken from the tail of the untrimmed base
\* chunk before it, a space and the base chunk itself, each trimmed and the
\* blank ones left out.
C11_OverlapPrefix ==
    (chunk_pc = "done" /\ chunk_overlap > 0 /\ Len(segments) >= 2) =>
        segments =
            StripAll([i \in 1..Len(raw_chunks) |->
                        IF i = 1 THEN raw_chunks[1]
                        ELSE TailPrefix(raw_chunks[i - 1], chunk_overlap)
                             \o <<SP>> \o raw_chunks[i]])

\* A segment got a prefix that was moved past a space of the slice.
C11_Witness ==
    /\ chunk_pc = "done"
    /\ chunk_overlap > 0
    /\ Len(segments) >= 2
    /\ \E i \in 2..Len(raw_chunks) :
          /\ SP \in Elems(TailSlice(raw_chunks[i - 1], chunk_overlap))
          /\ TailPrefix(raw_chunks[i - 1], chunk_overlap) # <<>>

\* C12: every Chunker that construction accepts returns from chunk() on
\* every text without raising, and _split_text never nests deeper than the
\* separator list is long.
C12_TotalAndBounded ==
    (chunk_pc \in {"done", "raised"}) =>
        /\ chunk_pc = "done"
        /\ ChunkDepth(text, chunk_size) <= Len(SEPARATORS)

\* C13: a Chunker that construction returned, and so every chunk() call,
\* has a strictly positive chunk_size and a chunk_overlap below it.
C13_InvalidRejected ==
    (chunk_pc \in {"ready", "done", "raised"}) =>
        /\ chunk_size > 0
        /\ chunk_overlap < chunk_size

\* ---------------------------------------------------------- search claims
\* C14: the passages a caller gets are in order of non-increasing score,
\* in whatever order the index handed back its hits.
C14_OrderedByScore ==
    (srch.pc = "summarised") =>
        \A i, j \in 1..Len(srch.sources) :
            i < j => srch.sources[i].score >= srch.sources[j].score

\* 1e-4, the step of a rounded score, in units of 1e-5.
ScoreStep == 10

\* C15 as stated: of two distances the index reports, the smaller one gets
\* the strictly greater score.
C15_StrictlyMonotonic ==
    (conv.pc = "converted" /\ conv.a < conv.b) => conv.score_a > conv.score_b

\* C15 amended: of two distances the index reports, the smaller one gets a
\* score that is at least as great, and a strictly greater one when the
\* distances are more than 1e-4 apart.
C15_Monotonic ==
    (conv.pc = "converted" /\ conv.a < conv.b) =>
        /\ conv.score_a >= conv.score_b
        /\ conv.b - conv.a > ScoreStep => conv.score_a > conv.score_b

\* Two different distances were converted to the same score.
C15_Witness ==
    /\ conv.pc = "converted"
    /\ conv.a < conv.b
    /\ conv.score_a = conv.score_b

\* C16: a search that queried the index asked for at least one result and
\* for no more results than the collection held when the query ran, and it
\* returns at most top_k passages.
C16_ClampedQuery ==
    /\ srch.queried =>
          /\ srch.n_results >= 1
          /\ srch.n_results <= srch.held
    /\ Len(srch.results) <= srch.top_k

\* ----------------------------------------------------------- store claims
\* The records of a collection that belong to a document.
DocRecords(st, document_id, collection) ==
    IF collection \in DOMAIN st
    THEN SelectSeq(st[collection],
                   LAMBDA r : r.metadata.document_id = document_id)
    ELSE <<>>

\* The records of a collection, none if the collection does not exist.
Records(st, collection) ==
    IF collection \in DOMAIN st THEN st[collection] ELSE <<>>

\* C17: a delete_document call for a document without chunks in the
\* collection reports zero deleted records and leaves the records of every
\* collection as they were; after any delete_document call no record of
\* that document remains in the collection, and deleting once more would
\* leave the store as it is.
C17_DeleteIdempotent ==
    [][\A d \in 1..MaxIngests, c \in Collections :
          Delete(d, c) =>
              /\ del'.result.status = "deleted"
              /\ del'.deleted = Len(DocRecords(store, d, c))
              /\ DocRecords(store, d, c) = <<>> =>
                    /\ del'.deleted = 0
                    /\ \A k \in Collections :
                          Records(store', k) = Records(store, k)
              /\ DocRecords(store', d, c) = <<>>
              /\ DeleteDocument(store', d, c) = store']_vars

\* A document without chunks in the collection was deleted from a store
\* that holds records, some of them in that collection.
C17_Witness ==
    /\ del.pc = "done"
    /\ del.deleted = 0
    /\ Records(store, del.collection) # <<>>

\* Every passage of a result list is a record of the collection.
FromCollection(results, st, collection) ==
    \A i \in 1..Len(results) :
        \E k \in 1..Len(Records(st, collection)) :
            /\ Records(st, collection)[k].document = results[i].text
            /\ Records(st, collection)[k].metadata = results[i].metadata

\* C18: the add_chunks step of ingest_pdf into a collection and a
\* delete_document on a collection leave the records of every other
\* collection as they were, the delete also the records of every other
\* document of its collection; a search on a collection returns only
\* records of that collection.
C18_CollectionIsolation ==
    [][/\ IngestStore =>
             \A k \in Collections \ {ing.collection_name} :
                 Records(store', k) = Records(store, k)
       /\ \A d \in 1..MaxIngests, c \in Collections :
             Delete(d, c) =>
                 /\ \A k \in Collections \ {c} :
                       Records(store', k) = Records(store, k)
                 /\ \A e \in (1..MaxIngests) \ {d} :
                       DocRecords(store', e, c) = DocRecords(store, e, c)
       /\ (AskSearch /\ ask'.pc # "failed") =>
             FromCollection(ask'.results, store, ask.collection)
       /\ (StreamSearch /\ stream'.pc # "failed") =>
             FromCollection(stream'.results, store, stream.collection)]_vars

\* A document was deleted from one collection while the other collection
\* holds records.
C18_Witness ==
    /\ del.pc = "done"
    /\ del.deleted > 0
    /\ \E k \in Collections \ {del.collection} : Records(store, k) # <<>>

\* C20: no step of ask or ask_stream changes the store: the collections
\* that exist and the records of each are the same after the step.
C20_RetrievalReadOnly ==
    [][(ask' # ask \/ stream' # stream) => store' = store]_vars

\* ------------------------------------------------------ ingestion claims
\* What caller j's ingest_pdf returns when it runs alone and nothing fails.
AloneResult(j) ==
    IngestResult(jobs[j].document_id, Filename,
                 Chunk(ExtractText(jobs[j].pdf), chunk_size, chunk_overlap),
                 jobs[j].collection_name)

\* The records caller j's ingest_pdf stores into a collection when it runs
\* alone on an empty store.
AloneRecords(j, collection) ==
    LET chunks == Chunk(ExtractText(jobs[j].pdf), chunk_size, chunk_overlap)
        alone == AddChunks(EmptyStore, chunks, EmbedTexts(chunks),
                           ChunkIds(jobs[j].document_id, Len(chunks)),
                           Metadata(jobs[j].document_id, Filename, Len(chunks)),
                           jobs[j].collection_name)
    IN  Elems(Records(alone, collection))

\* C19: however the statements of concurrent ingest_pdf invocations
\* interleave, each invocation has its own document_id, no two of them
\* share a chunk id, each one that returns returns the result it would
\* return alone, and each collection holds exactly the records that the
\* invocations which have stored would each have stored alone, once each.
C19_IndependentIngestions ==
    LET started == {j \in Callers : jobs[j].pc # "idle"}
        stored == {j \in Callers : jobs[j].pc = "done"}
        ids(j) == Elems(ChunkIds(jobs[j].document_id, Len(jobs[j].chunks)))
    IN  /\ \A i, j \in started :
              i # j => /\ jobs[i].document_id # jobs[j].document_id
                       /\ ids(i) \cap ids(j) = {}
        /\ \A j \in stored :
              /\ jobs[j].result = AloneResult(j)
              /\ jobs[j].stored = jobs[j].result.chunk_count
        /\ \A c \in Collections :
              /\ Elems(Records(store, c))
                     = UNION {AloneRecords(j, c) : j \in stored}
              /\ Cardinality(Elems(Records(store, c)))
                     = Len(Records(store, c))

\* Two invocations on the same file and the same collection have both
\* returned, and the one that started later stored first.
C19_Witness ==
    \E i, j \in Callers :
        /\ jobs[i].pc = "done" /\ jobs[j].pc = "done"
        /\ jobs[i].pdf = jobs[j].pdf
        /\ jobs[i].collection_name = jobs[j].collection_name
        /\ jobs[i].document_id < jobs[j].document_id
        /\ Records(store, jobs[i].collection_name)[1].metadata.document_id
               = jobs[j].document_id

====
